---- MODULE Spec2Model ----
(***************************************************************************)
(* State-machine model of src/src/App.js (the App component, lines         *)
(* 304-664): the access gate, the search controller with its provider      *)
(* callbacks, per-place detail lookups and delayed pagination, and the     *)
(* parts of the rendered view that decide which handlers can run.          *)
(*                                                                         *)
(* Every React event handler runs to completion on the single UI thread,   *)
(* so one handler (with all the state setters it calls) is one action.     *)
(* The provider (Google Places), the timer queue, the clock, localStorage  *)
(* and window.google are the environment.                                  *)
(***************************************************************************)
EXTENDS Naturals, Integers, Sequences, FiniteSets, Bags, TLC

VARIABLES
    \* ---- React state of App (useState) ----
    activeTab,        \* "search" | "results"
    query,            \* the query text, a sequence of characters
    results,          \* the result list
    loading,          \* BOOLEAN
    error,            \* the error message, "" when none
    nextPage,         \* Null, or the stored continuation closure
    isAuthenticated,  \* BOOLEAN
    enteredKey,       \* text of the key input
    \* ---- environment ----
    mounted,          \* the mount effect (session check) has run
    savedSession,     \* localStorage["onduleSession"]: NoSession or {key, expiry}
    googleLoaded,     \* window.google is defined
    pending,          \* bag of provider page requests awaiting their callback
    lookups,          \* bag of getDetails requests awaiting their callback
    timers,           \* queue of setTimeout entries not yet fired
    downloads,        \* files handed to saveAs so far
    \* ---- history (never read by a handler) ----
    nSearch,          \* number of textSearch requests issued so far
    nMore,            \* number of loadMore invocations so far
    nDelivered,       \* number of summaries the provider has delivered so far
    nIgnored,         \* number of submissions handleSearch returned from at once
    delivered,        \* bag of summaries delivered by OK pages since the last reset
    log               \* detail callbacks completed since the last reset

reactVars == <<activeTab, query, results, loading, error, nextPage>>
authVars  == <<isAuthenticated, enteredKey, mounted, savedSession>>
envVars   == <<googleLoaded, pending, lookups, timers, downloads>>
histVars  == <<nSearch, nMore, nDelivered, nIgnored, delivered, log>>
vars      == <<reactVars, authVars, envVars, histVars>>

-----------------------------------------------------------------------------
(* Bounds of the model *)

MaxSearches == 2      \* textSearch requests issued in one run
MaxLoadMore == 2      \* loadMore invocations in one run
MaxLookups  == 2      \* summaries the provider delivers in one run
MaxIgnored  == 1      \* blank submissions in one run
MaxDownloads == 1     \* exports in one run

-----------------------------------------------------------------------------
(* Program constants *)

SECRET_KEY == "ONDULEX2025"

OneHourSession == 60 * 60 * 1000

SESSION_DURATION == 24 * 60 * 60 * 1000

\* null / absent values (records, so that they compare with records)
Null == [null |-> TRUE]
NoSession == [none |-> TRUE]

OK == "OK"
Statuses == {OK, "ZERO_RESULTS", "REQUEST_DENIED"}
DetailStatuses == {OK, "NOT_FOUND"}

\* err.message of the Error thrown at line 415 (line 424 falls back to
\* "An error occurred" only for an error without a message)
SdkErrorFallback == "An error occurred"

SdkMissingMessage == "Google Maps SDK not loaded. Check index.html script."

\* Place identifiers the provider knows
PlaceIds == {"p1", "p2"}

\* Values Date.now() is read as (ms), and the session records localStorage
\* may hold when the page is opened
ClockReadings == {1000, 2000}
StoredSessions ==
    {NoSession} \cup {[key |-> SECRET_KEY, expiry |-> e] : e \in ClockReadings}

\* A page of place summaries as the provider hands it to the callback: a
\* sequence of place ids (ids may repeat, the provider is not under our control).
RECURSIVE SeqsUpTo(_, _)
SeqsUpTo(S, n) ==
    IF n = 0 THEN {<< >>}
    ELSE LET shorter == SeqsUpTo(S, n - 1)
         IN  shorter \cup {Append(s, x) : s \in {t \in shorter : Len(t) = n - 1}, x \in S}

Pages == SeqsUpTo(PlaceIds, MaxLookups)

\* pagination argument of the callback: absent, or an object with hasNextPage
Paginations == {Null, [hasNextPage |-> FALSE], [hasNextPage |-> TRUE]}

\* Query texts the user can type (character sequences)
Queries == {<<" ">>, <<"a", " ">>}
KeyInputs == {"", "wrong", SECRET_KEY}

-----------------------------------------------------------------------------
(* Pure helpers *)

\* String.prototype.trim on a character sequence: whitespace is dropped at
\* both ends, characters in between are kept.
Whitespace == {" "}

RECURSIVE TrimStart(_)
TrimStart(s) ==
    IF s # << >> /\ Head(s) \in Whitespace THEN TrimStart(Tail(s)) ELSE s

RECURSIVE TrimEnd(_)
TrimEnd(s) ==
    IF s # << >> /\ s[Len(s)] \in Whitespace
    THEN TrimEnd(SubSeq(s, 1, Len(s) - 1))
    ELSE s

Trim(s) == TrimEnd(TrimStart(s))

\* `!query.trim()`: the empty string is falsy
IsBlankNoTrim(s) == s = << >>

IsBlank(s) == Trim(s) = << >>

\* A place summary of a page (res[i]). sid and pg name the textSearch request
\* and the page of its result set the summary came with.
Summary(p, r) == [place_id |-> p, sid |-> r.sid, pg |-> r.pg, full |-> FALSE]

\* The record getDetails hands back for a place on success.
DetailsOf(place) == [place EXCEPT !.full = TRUE]

\* The getDetails callback's state update (lines 375-380).
AppendDropsFallback(prev, place, detailsStatus) ==
    IF detailsStatus = OK THEN Append(prev, DetailsOf(place)) ELSE prev

AppendPrepends(prev, place, detailsStatus) ==
    IF detailsStatus = OK
    THEN <<DetailsOf(place)>> \o prev
    ELSE <<place>> \o prev

AppendResult(prev, place, detailsStatus) ==
    IF detailsStatus = OK
    THEN Append(prev, DetailsOf(place))
    ELSE Append(prev, place)

\* res.forEach(place => getDetails(...)) of lines 360-383: one lookup per
\* element of the page, as a bag of the lookups issued
FanoutDistinct(res, r) ==
    SetToBag({Summary(res[i], r) : i \in DOMAIN res})

RECURSIVE Fanout(_, _)
Fanout(res, r) ==
    IF res = << >>
    THEN EmptyBag
    ELSE SetToBag({Summary(Head(res), r)}) (+) Fanout(Tail(res), r)

\* What the provider delivered with a page: how often each summary occurs in it
Delivery(res, r) ==
    LET S == {Summary(res[i], r) : i \in DOMAIN res}
    IN  [x \in S |-> Cardinality({i \in DOMAIN res : Summary(res[i], r) = x})]

\* `pagination && pagination.hasNextPage`
HasNextPage(pagination) ==
    pagination # Null /\ pagination.hasNextPage

\* The value stored by setNextPage (lines 387-397): a closure over this
\* page's pagination object, or null.
ContinuationAlwaysKept(r, pagination) == [sid |-> r.sid, pg |-> r.pg]

Continuation(r, pagination) ==
    IF HasNextPage(pagination) THEN [sid |-> r.sid, pg |-> r.pg] ELSE Null

\* The message of line 399
FailureMessageFixed(status) == "Google Places request failed"

FailureMessage(status) == "Google Places request failed: " \o status

\* The delay handed to setTimeout (line 393), in ms
ShortDelay == 2 * 500

PaginationDelay == 2000

TickSteps == {1000}

-----------------------------------------------------------------------------
(* Export (downloadExcel, lines 436-461) *)

\* JavaScript values of a record's fields
Undefined == [undefined |-> TRUE]
Str(s) == [str |-> s]
Num(n) == [num |-> n]

\* item.f: a property the object does not have reads as undefined
Field(item, f) == IF f \in DOMAIN item THEN item[f] ELSE Undefined

\* the values `||` skips
Falsy(v) == v = Undefined \/ v = Str("") \/ v = Num(0)

\* `v || d`
OrElseKeepsValue(v, d) == v

OrElse(v, d) == IF Falsy(v) THEN d ELSE v

\* The row object of lines 439-444, as the ordered list of its keys and values
ExportRow(item) ==
    << [col |-> "Name",          val |-> OrElse(Field(item, "name"), Str("N/A"))],
       [col |-> "Address",       val |-> OrElse(Field(item, "formatted_address"), Str("N/A"))],
       [col |-> "Phone",         val |-> OrElse(Field(item, "formatted_phone_number"), Str("N/A"))],
       [col |-> "Website",       val |-> OrElse(Field(item, "website"), Str("N/A"))],
       [col |-> "Rating",        val |-> OrElse(Field(item, "rating"), Str("N/A"))],
       [col |-> "Total Reviews", val |-> OrElse(Field(item, "user_ratings_total"), Str("0"))] >>

\* results.map(...) of line 438
ExportRows(list) == [i \in DOMAIN list |-> ExportRow(list[i])]

\* The character class [a-zA-Z0-9_-] of line 456
LowerCase == {"a", "b", "c", "d", "e", "f", "g", "h", "i", "j", "k", "l", "m",
              "n", "o", "p", "q", "r", "s", "t", "u", "v", "w", "x", "y", "z"}
UpperCase == {"A", "B", "C", "D", "E", "F", "G", "H", "I", "J", "K", "L", "M",
              "N", "O", "P", "Q", "R", "S", "T", "U", "V", "W", "X", "Y", "Z"}
Digits    == {"0", "1", "2", "3", "4", "5", "6", "7", "8", "9"}
SafeChars == LowerCase \cup UpperCase \cup Digits \cup {"_", "-"}

\* query.replace(/[^a-zA-Z0-9_-]/g, "_"): every match is replaced, left to right
RECURSIVE SanitizeFirstOnly(_)
SanitizeFirstOnly(s) ==
    IF s = << >> THEN << >>
    ELSE IF Head(s) \notin SafeChars
         THEN <<"_">> \o Tail(s)
         ELSE <<Head(s)>> \o SanitizeFirstOnly(Tail(s))

RECURSIVE Sanitize(_)
Sanitize(s) ==
    IF s = << >> THEN << >>
    ELSE <<IF Head(s) \notin SafeChars THEN "_" ELSE Head(s)>> \o Sanitize(Tail(s))

\* The template string of line 459, as the list of its pieces: the literal
\* "leads_", the characters of the sanitized query, "_", the date, ".xlsx"
ExportFilename(q, date) == <<"leads_">> \o Sanitize(q) \o <<"_", date, ".xlsx">>

\* new Date().toISOString().slice(0, 10) as read when the export runs
IsoDates == {"2025-01-01"}

\* Detail records the provider can hand back: each requested field is there
\* with a value, or is left out
DetailFields == {"name", "formatted_address", "formatted_phone_number",
                 "website", "rating", "user_ratings_total"}
SampleValue ==
    [name |-> Str("Cafe"), formatted_address |-> Str("1 Road"),
     formatted_phone_number |-> Str("021"), website |-> Str("http://x"),
     rating |-> Num(4), user_ratings_total |-> Num(12)]
DetailRecords == {[f \in D |-> SampleValue[f]] : D \in SUBSET DetailFields}

\* Characters of the query texts of the export runs
ExportChars == {"a", "Z", "7", "_", "-", " ", "/"}

-----------------------------------------------------------------------------
(* The rendered view (lines 463-513, 517-546, 549-609) *)

LoginScreenShown    == ~isAuthenticated
SearchSectionUngated == activeTab = "search"
SearchSectionShown  == isAuthenticated /\ activeTab = "search"
ResultsSectionShown == isAuthenticated /\ activeTab = "results"
\* the form's input is `required` and, like the button, disabled while loading
SearchFormAlwaysEnabled == SearchSectionShown
SearchFormEnabled   == SearchSectionShown /\ ~loading
ErrorShown          == ResultsSectionShown /\ error # ""
ResultCardsShown    == ResultsSectionShown /\ Len(results) > 0
LoadMoreShown       == ResultCardsShown /\ nextPage # Null
LoadMoreEnabled     == LoadMoreShown /\ ~loading
NoResultsShown      == ResultsSectionShown /\ ~loading /\ Len(results) = 0 /\ error = ""
DownloadShown       == ResultCardsShown

-----------------------------------------------------------------------------
(* Initial state: the component has been constructed, the mount effect has  *)
(* not run yet.                                                             *)

Init ==
    /\ activeTab = "search"
    /\ query = << >>
    /\ results = << >>
    /\ loading = FALSE
    /\ error = ""
    /\ nextPage = Null
    /\ isAuthenticated = FALSE
    /\ enteredKey = ""
    /\ mounted = FALSE
    /\ savedSession \in StoredSessions
    /\ googleLoaded \in BOOLEAN
    /\ pending = EmptyBag
    /\ lookups = EmptyBag
    /\ timers = << >>
    /\ downloads = << >>
    /\ nSearch = 0
    /\ nMore = 0
    /\ nDelivered = 0
    /\ nIgnored = 0
    /\ delivered = EmptyBag
    /\ log = << >>

-----------------------------------------------------------------------------
(* Access gate *)

\* useEffect(..., []) of lines 329-339: the session check on app load
sessionCheckInclusive(now) ==
    /\ ~mounted
    /\ mounted' = TRUE
    /\ IF savedSession # NoSession
       THEN IF now <= savedSession.expiry
            THEN /\ isAuthenticated' = TRUE
                 /\ UNCHANGED savedSession
            ELSE /\ savedSession' = NoSession
                 /\ UNCHANGED isAuthenticated
       ELSE UNCHANGED <<isAuthenticated, savedSession>>
    /\ UNCHANGED <<reactVars, enteredKey, envVars, histVars>>

sessionCheck(now) ==
    /\ ~mounted
    /\ mounted' = TRUE
    /\ IF savedSession # NoSession
       THEN IF now < savedSession.expiry
            THEN /\ isAuthenticated' = TRUE
                 /\ UNCHANGED savedSession
            ELSE /\ savedSession' = NoSession
                 /\ UNCHANGED isAuthenticated
       ELSE UNCHANGED <<isAuthenticated, savedSession>>
    /\ UNCHANGED <<reactVars, enteredKey, envVars, histVars>>

\* onChange of the key input (line 472); the input exists on the login screen
setEnteredKey(k) ==
    /\ mounted /\ LoginScreenShown
    /\ enteredKey' = k
    /\ UNCHANGED <<reactVars, isAuthenticated, mounted, savedSession, envVars, histVars>>

\* handleLogin (lines 342-354)
handleLogin(now) ==
    /\ IF enteredKey = SECRET_KEY
       THEN /\ savedSession' = [key |-> SECRET_KEY, expiry |-> now + SESSION_DURATION]
            /\ isAuthenticated' = TRUE
       ELSE UNCHANGED <<savedSession, isAuthenticated>>   \* alert(...)
    /\ UNCHANGED <<reactVars, enteredKey, mounted, envVars, histVars>>

-----------------------------------------------------------------------------
(* Search controller *)

\* onChange of the query input (line 525)
setQuery(q) ==
    /\ query' = q
    /\ UNCHANGED <<activeTab, results, loading, error, nextPage,
                   authVars, envVars, histVars>>

\* setResults([]) and setNextPage(null) of lines 410-411
SearchKeepsResults == results

SearchResetResults == << >>

SearchResetNextPage == Null

\* handleSearch (lines 404-427)
handleSearch ==
    IF IsBlank(query)
    THEN \* return (line 406)
         /\ nIgnored < MaxIgnored
         /\ nIgnored' = nIgnored + 1
         /\ UNCHANGED <<reactVars, authVars, envVars, nSearch, nMore,
                        nDelivered, delivered, log>>
    ELSE /\ results' = SearchResetResults
         /\ nextPage' = SearchResetNextPage
         /\ delivered' = EmptyBag
         /\ log' = << >>
         /\ IF ~googleLoaded
            THEN \* throw ... catch (lines 414-416, 423-426)
                 /\ error' = SdkMissingMessage
                 /\ loading' = FALSE
                 /\ UNCHANGED <<pending, nSearch>>
            ELSE \* textSearch(request, placesCallback) (line 422)
                 /\ nSearch < MaxSearches
                 /\ error' = ""
                 /\ loading' = TRUE
                 /\ nSearch' = nSearch + 1
                 /\ pending' = pending (+) SetToBag({[sid |-> nSearch + 1, pg |-> 1]})
         /\ UNCHANGED <<activeTab, query, authVars, googleLoaded, lookups,
                        timers, downloads, nMore, nDelivered, nIgnored>>

\* placesCallback (lines 357-402), run for the provider request r
placesCallbackClearsError(r, res, status, pagination) ==
    /\ IF status = OK
       THEN /\ lookups' = lookups (+) Fanout(res, r)
            /\ activeTab' = "results"
            /\ nextPage' = Continuation(r, pagination)
            /\ delivered' = delivered (+) Delivery(res, r)
            /\ error' = ""
       ELSE /\ error' = FailureMessage(status)
            /\ UNCHANGED <<lookups, activeTab, nextPage, delivered>>
    /\ loading' = FALSE

placesCallback(r, res, status, pagination) ==
    /\ IF status = OK
       THEN /\ lookups' = lookups (+) Fanout(res, r)
            /\ activeTab' = "results"
            /\ nextPage' = Continuation(r, pagination)
            /\ delivered' = delivered (+) Delivery(res, r)
            /\ UNCHANGED error
       ELSE /\ error' = FailureMessage(status)
            /\ UNCHANGED <<lookups, activeTab, nextPage, delivered>>
    /\ loading' = FALSE

\* The provider answers an outstanding textSearch / nextPage request.
providerCallback(r, res, status, pagination) ==
    /\ BagIn(r, pending)
    /\ pending' = pending (-) SetToBag({r})
    /\ placesCallback(r, res, status, pagination)
    /\ nDelivered + Len(res) <= MaxLookups
    /\ nDelivered' = nDelivered + Len(res)
    /\ UNCHANGED <<query, results, authVars, googleLoaded, timers, downloads,
                   nSearch, nMore, nIgnored, log>>

\* The callback handed to getDetails (lines 374-381), run for lookup `place`
getDetailsCallbackTagged(place, detailsStatus) ==
    /\ BagIn(place, lookups)
    /\ lookups' = lookups (-) SetToBag({place})
    /\ results' = IF place.sid = nSearch
                  THEN AppendResult(results, place, detailsStatus)
                  ELSE results
    /\ log' = Append(log, [place |-> place, ok |-> detailsStatus = OK])
    /\ UNCHANGED <<activeTab, query, loading, error, nextPage, authVars,
                   googleLoaded, pending, timers, downloads, nSearch, nMore,
                   nDelivered, nIgnored, delivered>>

getDetailsCallback(place, detailsStatus) ==
    /\ BagIn(place, lookups)
    /\ lookups' = lookups (-) SetToBag({place})
    /\ results' = AppendResult(results, place, detailsStatus)
    /\ log' = Append(log, [place |-> place, ok |-> detailsStatus = OK])
    /\ UNCHANGED <<activeTab, query, loading, error, nextPage, authVars,
                   googleLoaded, pending, timers, downloads, nSearch, nMore,
                   nDelivered, nIgnored, delivered>>

\* loadMore (lines 429-434); nextPage() is the closure of lines 389-394,
\* which only arms the timer
loadMoreUnguarded ==
    /\ nMore < MaxLoadMore
    /\ nMore' = nMore + 1
    /\ loading' = TRUE
    /\ IF nextPage # Null
       THEN timers' = Append(timers, [h |-> nextPage, delay |-> PaginationDelay,
                                      waited |-> 0])
       ELSE UNCHANGED timers
    /\ UNCHANGED <<activeTab, query, results, error, nextPage, authVars,
                   googleLoaded, pending, lookups, downloads, nSearch,
                   nDelivered, nIgnored, delivered, log>>

loadMore ==
    /\ nMore < MaxLoadMore
    /\ nMore' = nMore + 1
    /\ IF nextPage # Null
       THEN /\ loading' = TRUE
            /\ timers' = Append(timers, [h |-> nextPage, delay |-> PaginationDelay,
                                         waited |-> 0])
       ELSE UNCHANGED <<loading, timers>>
    /\ UNCHANGED <<activeTab, query, results, error, nextPage, authVars,
                   googleLoaded, pending, lookups, downloads, nSearch,
                   nDelivered, nIgnored, delivered, log>>

RemoveAt(s, i) == SubSeq(s, 1, i - 1) \o SubSeq(s, i + 1, Len(s))

\* The timer armed by loadMore fires, no sooner than its delay:
\* pagination.nextPage() (line 392) asks the provider for the page after the
\* one the closure was made for.
timerFires(i) ==
    /\ timers[i].waited >= timers[i].delay
    /\ timers' = RemoveAt(timers, i)
    /\ pending' = pending (+) SetToBag({[sid |-> timers[i].h.sid,
                                         pg |-> timers[i].h.pg + 1]})
    /\ UNCHANGED <<reactVars, authVars, googleLoaded, lookups, downloads, histVars>>

\* onBack (line 504)
onBack ==
    /\ activeTab' = "search"
    /\ UNCHANGED <<query, results, loading, error, nextPage, authVars, envVars, histVars>>

\* downloadExcel (lines 436-461): the rows go to the serializer, the file to saveAs
downloadExcel(date) ==
    /\ Len(downloads) < MaxDownloads
    /\ downloads' = Append(downloads, [rows |-> ExportRows(results),
                                       filename |-> ExportFilename(query, date)])
    /\ UNCHANGED <<reactVars, authVars, googleLoaded, pending, lookups, timers,
                   histVars>>

-----------------------------------------------------------------------------
(* Environment *)

Min(a, b) == IF a <= b THEN a ELSE b

\* Time passes by d ms. Only the armed timers observe it (setTimeout is
\* relative); a timer that is due does not count any further.
Tick(d) ==
    /\ \E i \in DOMAIN timers : timers[i].waited < timers[i].delay
    /\ timers' = [i \in DOMAIN timers |->
                    [timers[i] EXCEPT !.waited = Min(@ + d, timers[i].delay)]]
    /\ UNCHANGED <<reactVars, authVars, googleLoaded, pending, lookups, downloads,
                   histVars>>

\* The Maps script of index.html finishes loading: window.google appears.
sdkLoads ==
    /\ ~googleLoaded
    /\ googleLoaded' = TRUE
    /\ UNCHANGED <<reactVars, authVars, pending, lookups, timers, downloads,
                   histVars>>

ProviderAnswers ==
    \E r \in BagToSet(pending) :
        \/ \E res \in Pages, pagination \in Paginations :
               providerCallback(r, res, OK, pagination)
        \/ \E status \in Statuses \ {OK} :
               providerCallback(r, << >>, status, Null)

DetailsAnswers ==
    \E place \in BagToSet(lookups), detailsStatus \in DetailStatuses :
        getDetailsCallback(place, detailsStatus)

TimerFires == \E i \in DOMAIN timers : timerFires(i)

TimePasses == \E d \in TickSteps : Tick(d)

AppLoads == \E now \in ClockReadings : sessionCheck(now)

-----------------------------------------------------------------------------
(* The application as the user drives it: a handler runs only through a     *)
(* control that the current view renders and enables.                       *)

UserTypesKey     == \E k \in KeyInputs : setEnteredKey(k)
\* the key input is `required`: the browser does not submit an empty form
UserSubmitsKey   ==
    \E now \in ClockReadings :
        mounted /\ LoginScreenShown /\ enteredKey # "" /\ handleLogin(now)
UserTypesQuery   == \E q \in Queries : mounted /\ SearchFormEnabled /\ setQuery(q)
\* the query input is `required`
UserSubmitsQuery == mounted /\ SearchFormEnabled /\ query # << >> /\ handleSearch
UserClicksMore   == mounted /\ LoadMoreEnabled /\ loadMore
UserClicksBack   == mounted /\ ResultsSectionShown /\ onBack
UserClicksDownload ==
    \E date \in IsoDates : mounted /\ DownloadShown /\ downloadExcel(date)

Next ==
    \/ AppLoads
    \/ UserTypesKey
    \/ UserSubmitsKey
    \/ UserTypesQuery
    \/ UserSubmitsQuery
    \/ UserClicksMore
    \/ UserClicksBack
    \/ UserClicksDownload
    \/ ProviderAnswers
    \/ DetailsAnswers
    \/ TimerFires
    \/ TimePasses
    \/ sdkLoads

Spec == Init /\ [][Next]_vars

\* The same, with every getDetails request called back in the end.
SpecLive == Spec /\ WF_vars(DetailsAnswers)

-----------------------------------------------------------------------------
(* The same application, with loadMore also called directly: the view     *)
(* offers the Load More control only while a continuation is stored, so     *)
(* the operation's other branch is reached by calling it. Likewise the      *)
(* search form is submitted without the browser's check of `required`, so   *)
(* that handleSearch also runs with the empty query.                        *)

CallLoadMore == mounted /\ isAuthenticated /\ loadMore

CallHandleSearch == mounted /\ SearchFormEnabled /\ handleSearch

NextDirect ==
    \/ Next
    \/ CallLoadMore
    \/ CallHandleSearch

SpecDirect == Init /\ [][NextDirect]_vars

-----------------------------------------------------------------------------
(* The export on its own: the results section is shown with a result list   *)
(* of detail records and a query text, both drawn from bounded sets, and    *)
(* the user clicks Download.                                                *)

MaxExportRows == 2    \* length of the result list of an export run
MaxQueryLen   == 2    \* length of the query text of an export run

ExportLists   == SeqsUpTo(DetailRecords, MaxExportRows) \ {<< >>}
ExportQueries == SeqsUpTo(ExportChars, MaxQueryLen)

InitExport ==
    /\ activeTab = "results"
    /\ query \in ExportQueries
    /\ results \in ExportLists
    /\ loading = FALSE
    /\ error = ""
    /\ nextPage = Null
    /\ isAuthenticated = TRUE
    /\ enteredKey = ""
    /\ mounted = TRUE
    /\ savedSession = NoSession
    /\ googleLoaded = TRUE
    /\ pending = EmptyBag
    /\ lookups = EmptyBag
    /\ timers = << >>
    /\ downloads = << >>
    /\ nSearch = 0
    /\ nMore = 0
    /\ nDelivered = 0
    /\ nIgnored = 0
    /\ delivered = EmptyBag
    /\ log = << >>

NextExport == UserClicksDownload

SpecExport == InitExport /\ [][NextExport]_vars

-----------------------------------------------------------------------------
(* Properties *)

IsPrefix(s, t) == Len(s) <= Len(t) /\ SubSeq(t, 1, Len(s)) = s

\* number of entries of the sequence s that satisfy Test
CountIn(s, Test(_)) == Cardinality({i \in DOMAIN s : Test(s[i])})

FailureStatuses == Statuses \ {OK}

SearchRequest(r) == r.pg = 1

\* C1: whenever handleSearch runs with a query that is not blank, and whenever
\* a textSearch request is handed to the provider, the state the request
\* leaves behind has an empty result list, an empty error message, no
\* continuation and loading = TRUE; the request is issued in that same step.
C1_ResetBeforeRequest ==
    [][ /\ \A r \in BagToSet(pending') :
              (SearchRequest(r) /\ CopiesIn(r, pending') > CopiesIn(r, pending))
                  => /\ results' = << >>
                     /\ error' = ""
                     /\ nextPage' = Null
                     /\ loading' = TRUE
        /\ (handleSearch /\ ~IsBlank(query) /\ googleLoaded)
              => /\ results' = << >> /\ error' = "" /\ nextPage' = Null
                 /\ loading' = TRUE
                 /\ \E r \in BagToSet(pending') :
                       /\ SearchRequest(r)
                       /\ CopiesIn(r, pending') = CopiesIn(r, pending) + 1
      ]_vars

\* A second search has just been submitted after the first one had filled the
\* result list (all its lookups had completed): the list is empty again.
C1_Witness ==
    /\ BagIn([sid |-> 2, pg |-> 1], pending)
    /\ nDelivered > 0
    /\ BagToSet(lookups) = {}
    /\ results = << >> /\ error = "" /\ nextPage = Null /\ loading

\* C2: a detail lookup that completes always adds exactly one entry at the
\* end of the result list, and when it completes with a failure status that
\* entry is the bare summary the lookup was issued for.
C2_FallbackAppended ==
    [][ \A place \in BagToSet(lookups) :
          /\ CopiesIn(place, lookups') < CopiesIn(place, lookups)
                => results' \in {Append(results, place),
                                 Append(results, DetailsOf(place))}
          /\ \A st \in DetailStatuses \ {OK} :
                getDetailsCallback(place, st) => results' = Append(results, place)
      ]_vars

C2_Witness ==
    \E i \in DOMAIN results :
        /\ i \in DOMAIN log
        /\ ~log[i].ok
        /\ results[i] = log[i].place
        /\ ~results[i].full

\* The current search's page has arrived with success and nothing of the
\* search is outstanding; no loadMore was made.
C3_PageComplete ==
    /\ nSearch >= 1
    /\ nMore = 0
    /\ BagToSet(pending) = {}
    /\ activeTab = "results" \/ BagToSet(delivered) # {}
    /\ \A x \in BagToSet(lookups) : x.sid # nSearch

\* No lookup of an earlier search completed, or is still to complete, after
\* the current search was submitted.
C3_NoOtherSearch ==
    /\ \A x \in BagToSet(lookups) : x.sid = nSearch
    /\ \A i \in DOMAIN log : log[i].place.sid = nSearch

C3_AllSucceeded == \A i \in DOMAIN log : log[i].ok

\* C3: once the page of a search has arrived and all its n lookups have
\* succeeded, with no other search's lookups in between, the result list is
\* exactly the n detail records, in the order the log of completions has
\* them, and the error message is empty.
C3_ExactlyThePage ==
    (C3_PageComplete /\ C3_NoOtherSearch /\ C3_AllSucceeded)
        => /\ Len(results) = BagCardinality(delivered)
           /\ Len(log) = Len(results)
           /\ \A i \in DOMAIN results : results[i] = DetailsOf(log[i].place)
           /\ \A x \in BagToSet(delivered) :
                 CountIn(results, LAMBDA e : e = DetailsOf(x)) = CopiesIn(x, delivered)
           /\ error = ""

\* A page of two different places, completed in the one order.
C3_Witness ==
    /\ C3_PageComplete /\ C3_NoOtherSearch /\ C3_AllSucceeded
    /\ Len(results) = 2
    /\ results[1].place_id = "p2" /\ results[2].place_id = "p1"

\* The same page, completed in the other order.
C3_WitnessOtherOrder ==
    /\ C3_PageComplete /\ C3_NoOtherSearch /\ C3_AllSucceeded
    /\ Len(results) = 2
    /\ results[1].place_id = "p1" /\ results[2].place_id = "p2"

\* C3 without the proviso about other searches (fails: a lookup of an earlier
\* search that completes after the reset is appended as well).
C3_ExactlyThePageAlways ==
    (C3_PageComplete /\ \A i \in DOMAIN log : log[i].place.sid = nSearch => log[i].ok)
        => /\ Len(results) = BagCardinality(delivered)
           /\ error = ""

\* What the callback of a failed textSearch does, the result list set aside.
C4_CallbackEffects(r, status) ==
    /\ error' = "Google Places request failed: " \o status
    /\ loading' = FALSE
    /\ results' = results
    /\ pending' = pending (-) SetToBag({r})
    /\ timers' = timers
    /\ lookups' = lookups

\* C4: when the callback of a textSearch reports a failure status S, the error
\* message becomes "Google Places request failed: " followed by S, the result
\* list is empty, loading is FALSE and no request, timer or lookup is issued.
C4_FailureSurfaced ==
    [][ \A r \in BagToSet(pending), status \in FailureStatuses :
          (SearchRequest(r) /\ providerCallback(r, << >>, status, Null))
              => (C4_CallbackEffects(r, status) /\ results' = << >>)
      ]_vars

\* C4, with "remains empty" read as "is left as it was" (holds).
C4_FailureSurfacedListUntouched ==
    [][ \A r \in BagToSet(pending), status \in FailureStatuses :
          (SearchRequest(r) /\ providerCallback(r, << >>, status, Null))
              => C4_CallbackEffects(r, status)
      ]_vars

\* C5: after the callback of a failed textSearch the view shows the error
\* message and no result entries.
C5_ErrorDisplayed ==
    [][ \A r \in BagToSet(pending), status \in FailureStatuses :
          (SearchRequest(r) /\ providerCallback(r, << >>, status, Null))
              => (ErrorShown' /\ ~ResultCardsShown')
      ]_vars

\* The error of a failed textSearch is in the state, and not on the screen.
C5_ErrorHidden ==
    [][ \A r \in BagToSet(pending), status \in FailureStatuses :
          (SearchRequest(r) /\ providerCallback(r, << >>, status, Null))
              => (error' # "" /\ ~ErrorShown' /\ SearchSectionShown')
      ]_vars

\* C6: loadMore called while no continuation is stored changes nothing of the
\* program or its environment: no request, no timer, and loading, results,
\* error, continuation and view as they were.
C6_LoadMoreNoOp ==
    [][ (loadMore /\ nextPage = Null) => UNCHANGED <<reactVars, authVars, envVars>>
      ]_vars

\* loadMore has been called before any search was made.
C6_Witness ==
    /\ nMore = 1 /\ nSearch = 0
    /\ isAuthenticated
    /\ nextPage = Null /\ ~loading /\ timers = << >>

\* C7: loadMore with a continuation stored sets loading and arms a timer
\* without calling the provider; the provider's next-page call is made only by
\* a timer that has waited 2000 ms since loadMore armed it.
C7_DelayedNextPage ==
    [][ /\ (loadMore /\ nextPage # Null)
              => /\ loading' = TRUE
                 /\ pending' = pending
                 /\ Len(timers') = Len(timers) + 1
                 /\ timers'[Len(timers')].waited = 0
        /\ \A r \in BagToSet(pending') :
              (~SearchRequest(r) /\ CopiesIn(r, pending') > CopiesIn(r, pending))
                  => \E i \in DOMAIN timers :
                        /\ timers[i].waited >= 2000
                        /\ timers' = RemoveAt(timers, i)
                        /\ r = [sid |-> timers[i].h.sid, pg |-> timers[i].h.pg + 1]
      ]_vars

\* The timer has fired: the request for the second page is with the provider.
C7_Witness ==
    /\ nMore >= 1
    /\ \E r \in BagToSet(pending) : r.pg = 2
    /\ loading

\* C8: every step that is not the reset of handleSearch leaves the result
\* list as it is or adds one entry at its end; loadMore, the timer and a
\* page callback leave it as it is.
C8_AppendOnly ==
    [][ /\ \/ handleSearch /\ ~IsBlank(query)
           \/ results' = results
           \/ Len(results') = Len(results) + 1 /\ IsPrefix(results, results')
        /\ loadMore => results' = results
        /\ (pending' # pending \/ timers' # timers) /\ ~handleSearch
              => results' = results
      ]_vars

\* Entries of the first page, then an entry of the page loadMore brought.
C8_Witness ==
    \E i, j \in DOMAIN results :
        /\ i < j
        /\ results[i].pg = 1 /\ results[j].pg = 2
        /\ results[i].sid = results[j].sid

\* C9: after a page callback with success status the continuation is stored
\* exactly if the page said that more results exist; when it did not, the
\* continuation is null and the Load More control is not shown.
C9_ContinuationIffMore ==
    [][ \A r \in BagToSet(pending), res \in Pages, pagination \in Paginations :
          providerCallback(r, res, OK, pagination)
              => /\ (nextPage' # Null) <=> HasNextPage(pagination)
                 /\ ~HasNextPage(pagination)
                       => (nextPage' = Null /\ ~LoadMoreShown' /\ ~LoadMoreEnabled')
      ]_vars

\* The page brought by loadMore was the last one: the continuation that was
\* stored is gone although results are shown.
C9_Witness ==
    /\ nextPage = Null
    /\ \E x \in BagToSet(delivered) : x.pg = 2
    /\ ResultCardsShown
    /\ ~LoadMoreShown

\* C10 as stated: no two entries of the result list are records of the same
\* place identifier of the same search.
C10_Deduplicated ==
    \A i, j \in DOMAIN results :
        (i # j) => ~(/\ results[i].place_id = results[j].place_id
                     /\ results[i].sid = results[j].sid)

\* C10, amended: nothing is deduplicated. Every summary the pages of the
\* current search delivered, counted as often as it was delivered, is either
\* a lookup still in flight or an entry of the result list.
C10_OneEntryPerDelivery ==
    \A x \in BagToSet(delivered) :
        CopiesIn(x, delivered)
            = CopiesIn(x, lookups)
              + CountIn(results, LAMBDA e : e = x \/ e = DetailsOf(x))

\* The same place delivered twice by one page: two entries.
C10_Witness ==
    \E i, j \in DOMAIN results :
        /\ i # j
        /\ results[i].place_id = results[j].place_id
        /\ results[i].sid = results[j].sid
        /\ results[i].pg = results[j].pg
        /\ BagToSet(lookups) = {}

\* The query text has no character other than white space (it may be empty).
C11_BlankQuery == \A i \in DOMAIN query : query[i] = " "

\* C11: handleSearch run with a query that is empty or only white space
\* changes nothing of the program or its environment: no request is issued,
\* no error is set, and results, loading, continuation and view stay as they
\* were.
C11_BlankSubmitNoOp ==
    [][ (handleSearch /\ C11_BlankQuery)
            => (UNCHANGED <<reactVars, authVars, envVars>> /\ nSearch' = nSearch)
      ]_vars

\* The empty query (never typed) was submitted and ignored.
C11_Witness ==
    /\ nIgnored = 1
    /\ query = << >>
    /\ nSearch = 0 /\ error = "" /\ ~loading /\ BagToSet(pending) = {}

\* A query of one space was submitted and ignored while results of the
\* search before were there.
C11_WitnessWhitespace ==
    /\ nIgnored = 1
    /\ query = <<" ">>
    /\ nSearch = 1 /\ Len(results) > 0 /\ error = "" /\ ~loading
    /\ activeTab = "search"

\* C12: handleSearch run with a query that is not blank while window.google
\* is missing issues no textSearch, no getDetails and no timer, sets the error
\* message to the SDK-missing message and leaves loading FALSE.
C12_SdkMissingAborts ==
    [][ (handleSearch /\ ~C11_BlankQuery /\ ~googleLoaded)
            => /\ pending' = pending /\ lookups' = lookups /\ timers' = timers
               /\ nSearch' = nSearch
               /\ error' = "Google Maps SDK not loaded. Check index.html script."
               /\ loading' = FALSE
      ]_vars

\* A search was submitted before the Maps script had loaded.
C12_Witness ==
    /\ ~googleLoaded
    /\ ~C11_BlankQuery
    /\ error = "Google Maps SDK not loaded. Check index.html script."
    /\ ~loading /\ nSearch = 0
    /\ BagToSet(pending) = {} /\ BagToSet(lookups) = {}

\* C13: the session check on app load, run at time `now`: a stored record
\* with expiry > now authenticates the user and stays stored; a stored record
\* with expiry <= now leaves the user unauthenticated and is removed; with no
\* record the user stays unauthenticated and the storage stays empty.
C13_RestoreSession ==
    [][ \A now \in ClockReadings :
          sessionCheck(now)
              => IF savedSession = NoSession
                 THEN ~isAuthenticated' /\ savedSession' = NoSession
                 ELSE IF savedSession.expiry > now
                      THEN isAuthenticated' /\ savedSession' = savedSession
                      ELSE ~isAuthenticated' /\ savedSession' = NoSession
      ]_vars

\* The user is authenticated by the stored record alone: no key was typed.
C13_Witness ==
    /\ mounted
    /\ isAuthenticated
    /\ enteredKey = ""
    /\ savedSession # NoSession
    /\ savedSession.expiry \in ClockReadings

\* C14: handleLogin run at time `now` with the entered text equal to the
\* secret stores the record {key, expiry = now + 24 h} and authenticates the
\* user; with any other text it changes neither the storage nor the
\* authentication state. After the app has loaded, nothing but a login with
\* the secret authenticates the user or writes the storage.
C14_CheckAccess ==
    [][ /\ \A now \in ClockReadings :
              handleLogin(now)
                  => IF enteredKey = "ONDULEX2025"
                     THEN /\ isAuthenticated'
                          /\ savedSession' = [key |-> "ONDULEX2025",
                                               expiry |-> now + 86400000]
                     ELSE UNCHANGED <<savedSession, isAuthenticated>>
        /\ (mounted /\ (isAuthenticated' # isAuthenticated \/ savedSession' # savedSession))
              => /\ enteredKey = "ONDULEX2025"
                 /\ \E now \in ClockReadings : handleLogin(now)
      ]_vars

\* The user has logged in at clock reading 1000: the record expires 24 h later.
C14_Witness ==
    /\ isAuthenticated
    /\ enteredKey = "ONDULEX2025"
    /\ savedSession = [key |-> "ONDULEX2025", expiry |-> 1000 + 86400000]

\* C15: while the user is not authenticated no request, lookup or timer is
\* outstanding and the controls of the tool are not offered; no step taken
\* from such a state is a search, a load-more or an export, or starts a
\* provider request or a timer. A user who is authenticated has a session
\* record stored (by the login or from before the app was loaded).
C15_LoginGate ==
    /\ [](~isAuthenticated
            => /\ BagToSet(pending) = {} /\ BagToSet(lookups) = {}
               /\ timers = << >> /\ downloads = << >> /\ results = << >>
               /\ nSearch = 0 /\ nMore = 0 /\ nIgnored = 0
               /\ ~SearchFormEnabled /\ ~LoadMoreEnabled /\ ~DownloadShown)
    /\ [](isAuthenticated => savedSession # NoSession)
    /\ [][ ~isAuthenticated
              => /\ pending' = pending /\ lookups' = lookups /\ timers' = timers
                 /\ downloads' = downloads
                 /\ nSearch' = nSearch /\ nMore' = nMore /\ nIgnored' = nIgnored
                 /\ UNCHANGED reactVars
          ]_vars

\* An authenticated user has searched, loaded more and exported.
C15_Witness ==
    /\ isAuthenticated
    /\ nSearch >= 1 /\ nMore = 1 /\ Len(downloads) = 1
    /\ \E x \in BagToSet(delivered) : x.pg = 2

C16_Columns == <<"Name", "Address", "Phone", "Website", "Rating", "Total Reviews">>

C16_Sources == <<"name", "formatted_address", "formatted_phone_number",
                 "website", "rating", "user_ratings_total">>

C16_Defaults == <<"N/A", "N/A", "N/A", "N/A", "N/A", "0">>

C17_Allowed == {"a", "Z", "7", "_", "-"}

\* C17: the file name handed to saveAs is "leads_", then one character per
\* character of the query, then "_", the date and ".xlsx"; the character at
\* position i is the query's when that is in [A-Za-z0-9_-] and "_"
\* otherwise, so all of them are in [A-Za-z0-9_-].
C17_Filename ==
    [][ \A date \in IsoDates :
          downloadExcel(date)
              => LET f == downloads'[Len(downloads')].filename
                 IN  /\ Len(f) = Len(query) + 4
                     /\ f[1] = "leads_"
                     /\ \A i \in DOMAIN query :
                           /\ f[i + 1] \in C17_Allowed
                           /\ query[i] \in C17_Allowed => f[i + 1] = query[i]
                           /\ query[i] \notin C17_Allowed => f[i + 1] = "_"
                     /\ f[Len(query) + 2] = "_"
                     /\ f[Len(query) + 3] = date
                     /\ f[Len(query) + 4] = ".xlsx"
      ]_vars

\* A query of a kept character and a replaced one was exported.
C17_Witness ==
    /\ Len(downloads) = 1
    /\ query = <<"-", " ">>
    /\ downloads[1].filename = <<"leads_", "-", "_", "_", "2025-01-01", ".xlsx">>

\* A query of two characters outside the class: both are replaced.
C17_WitnessAllReplaced ==
    /\ Len(downloads) = 1
    /\ query = <<" ", "/">>
    /\ downloads[1].filename = <<"leads_", "_", "_", "_", "2025-01-01", ".xlsx">>

\* C18: a new search cancels no lookup of the searches before it, and the
\* callback of a lookup appends its record to the result list whichever
\* search the lookup was issued for; so a lookup of an earlier search that
\* completes after the reset puts its record into the new search's list.
C18_StaleCallbackAppends ==
    [][ /\ (handleSearch /\ ~C11_BlankQuery) => lookups' = lookups
        /\ \A place \in BagToSet(lookups), st \in DetailStatuses :
              (getDetailsCallback(place, st) /\ place.sid # nSearch)
                  => /\ Len(results') = Len(results) + 1
                     /\ results'[Len(results')].place_id = place.place_id
                     /\ results'[Len(results')].sid = place.sid
                     /\ SubSeq(results', 1, Len(results)) = results
      ]_vars

\* The list of the second search holds a record of the first search next to
\* one of its own.
C18_Witness ==
    /\ nSearch = 2
    /\ \E i, j \in DOMAIN results : results[i].sid = 1 /\ results[j].sid = 2

\* Every summary delivered to the current search has its entry in the list.
C19_AllEntered ==
    /\ BagToSet(lookups) = {}
    /\ \A x \in BagToSet(delivered) :
          CountIn(results, LAMBDA e : e.place_id = x.place_id /\ e.sid = x.sid
                                      /\ e.pg = x.pg)
              = CopiesIn(x, delivered)

\* C19: a page callback with success status leaves loading FALSE and the
\* results view shown in the same step in which it issues the lookups,
\* however many there are, and enters nothing into the list itself; every
\* lookup that completes adds one entry; and when every lookup is called
\* back, the list in the end holds one entry per summary delivered.
C19_LateAppends ==
    /\ [][ /\ \A r \in BagToSet(pending), res \in Pages, pagination \in Paginations :
                 providerCallback(r, res, OK, pagination)
                     => /\ loading' = FALSE
                        /\ activeTab' = "results"
                        /\ results' = results
                        /\ BagCardinality(lookups') = BagCardinality(lookups) + Len(res)
           /\ BagCardinality(lookups') < BagCardinality(lookups)
                 => Len(results') = Len(results) + 1
         ]_vars
    /\ (BagToSet(lookups) # {}) ~> C19_AllEntered

\* The results view is shown and loading is over while both lookups of the
\* page are still in flight.
C19_Witness ==
    /\ ~loading
    /\ activeTab = "results"
    /\ results = << >>
    /\ BagCardinality(lookups) = 2
    /\ BagCardinality(delivered) = 2

\* At most one provider request or pagination timer is outstanding, it
\* belongs to the latest search, and the controls are disabled meanwhile.
C20_OneAtATime ==
    /\ BagCardinality(pending) + Len(timers) <= 1
    /\ (BagToSet(pending) # {} \/ timers # << >>) => loading
    /\ loading => (~SearchFormEnabled /\ ~LoadMoreEnabled)
    /\ \A r \in BagToSet(pending) : r.sid = nSearch
    /\ \A i \in DOMAIN timers : timers[i].h.sid = nSearch

\* C20: at most one provider request or pagination timer is outstanding, and
\* it belongs to the latest search; while one is outstanding loading is
\* TRUE; while loading is TRUE the search form and the Load More control are
\* disabled, and no step starts a search or a load-more.
C20_OneOutstanding ==
    /\ []C20_OneAtATime
    /\ [][ loading => /\ nSearch' = nSearch /\ nMore' = nMore
                      /\ nIgnored' = nIgnored
                      /\ Len(timers') <= Len(timers)
          ]_vars

\* The second search is waiting for its page after a load-more of the first
\* search has been answered: nothing of the first search is outstanding.
C20_Witness ==
    /\ nSearch = 2 /\ nMore = 1
    /\ loading
    /\ pending = SetToBag({[sid |-> 2, pg |-> 1]})
    /\ timers = << >>

\* C21: the error message is emptied by nothing but the reset of
\* handleSearch; a page callback with success status and a detail callback
\* leave it as it is; the callback of a failed pagination request leaves the
\* result list and the continuation as they are. So the message of a failed
\* load-more is still set when a later load-more on the same continuation
\* brings a page.
C21_ErrorSticks ==
    [][ /\ (error # "" /\ error' = "") => (handleSearch /\ ~C11_BlankQuery)
        /\ \A r \in BagToSet(pending), res \in Pages, pagination \in Paginations :
              providerCallback(r, res, OK, pagination) => error' = error
        /\ BagCardinality(lookups') < BagCardinality(lookups) => error' = error
        /\ \A r \in BagToSet(pending), status \in FailureStatuses :
              (~SearchRequest(r) /\ providerCallback(r, << >>, status, Null))
                  => /\ results' = results
                     /\ nextPage' = nextPage
                     /\ nextPage # Null
      ]_vars

\* The first load-more of the search failed, the second one brought the
\* last page: its record is in the list after the first page's, and the
\* message of the failure is still set.
C21_Witness ==
    /\ nSearch = 1 /\ nMore = 2
    /\ error \in {"Google Places request failed: ZERO_RESULTS",
                   "Google Places request failed: REQUEST_DENIED"}
    /\ nextPage = Null
    /\ Len(results) = 2
    /\ results[1].pg = 1 /\ results[2].pg = 2
    /\ ErrorShown /\ ResultCardsShown

====
